---- MODULE Spec2Model ----
(***************************************************************************)
(* Model of the Usage library (krisk78/usage-static): the registry of      *)
(* command line arguments, its requirement and conflict rules, and the     *)
(* parsing / validation of an argument vector by Usage::set_parameters.    *)
(*                                                                         *)
(* Strings (argument names, tokens, values) are sequences of characters,   *)
(* a character being a string of length one.  The build modelled is the    *)
(* __unix__ one (switch character '-', help argument "h") with assertions  *)
(* enabled: a failed assert aborts the call and changes nothing.           *)
(***************************************************************************)
EXTENDS Integers, Sequences, FiniteSets, TLC

VARIABLES us, last

vars == <<us, last>>

(***************************************************************************)
(* Bounds of the model.                                                    *)
(***************************************************************************)
\* Largest number of requirement edges declared at once.
MaxRequirements == 3
\* Largest number of literal conflict pairs declared at once.
MaxConflicts == 2
\* Largest number of tokens after the program name in an argument vector.
MaxTokens == 2
\* Largest number of rules declared before an argument vector is parsed.
MaxRules == 2

(***************************************************************************)
(* Program constants.                                                      *)
(***************************************************************************)
\* std::string::npos, the "not found" result of std::string::find.
npos == -1
switch_char == "-"
help_arg == <<"h">>
\* enum class Argument_Type
Argument_Type == {"string", "boolean", "simple"}

(***************************************************************************)
(* std::string operations used by the parser, positions counted from 0.    *)
(***************************************************************************)
\* s.find(c): position of the first c in s, npos when there is none.
Find(s, c) ==
    IF \E k \in 1..Len(s) : s[k] = c
    THEN (CHOOSE k \in 1..Len(s) : s[k] = c /\ \A m \in 1..(k - 1) : s[m] # c) - 1
    ELSE npos

Min(x, y) == IF x < y THEN x ELSE y

\* s.substr(pos, n): at most n characters from position pos (pos <= size).
Substr(s, pos, n) == SubSeq(s, pos + 1, pos + Min(n, Len(s) - pos))

\* s.erase(pos, n): s without at most n characters from position pos.
Erase(s, pos, n) ==
    SubSeq(s, 1, pos) \o SubSeq(s, pos + Min(n, Len(s) - pos) + 1, Len(s))

(***************************************************************************)
(* Requirements<const Argument*>: the set of directed edges                *)
(* <<dependent, requirement>>.  requirements.hpp and conflicts.hpp are not  *)
(* among the sources; their operations are written from the description of *)
(* the requirement graph and of the conflict graph, and never fail.        *)
(***************************************************************************)
RECURSIVE TransitiveClosure(_)
TransitiveClosure(R) ==
    LET next == R \cup {<<p[1][1], p[2][2]>> : p \in {q \in R \X R : q[1][2] = q[2][1]}}
    IN  IF next = R THEN R ELSE TransitiveClosure(next)

Requirements_add(R, dependent, requirement) == R \cup {<<dependent, requirement>>}

Requirements_remove(R, dependent, requirement) == R \ {<<dependent, requirement>>}

\* every edge in which the argument is the dependent or the requirement
Requirements_remove_all(R, argument) ==
    {e \in R : e[1] # argument /\ e[2] # argument}

\* the primitive Usage::remove_requirements calls, read as the removal of
\* every edge of the argument
Requirements_remove_requirement(R, argument) ==
    {e \in R : e[1] # argument /\ e[2] # argument}

Requirements_exists(R, dependent, requirement, all) ==
    IF all
    THEN <<dependent, requirement>> \in TransitiveClosure(R)
    ELSE <<dependent, requirement>> \in R

Requirements_has_requirements(R, dependent) == \E e \in R : e[1] = dependent

Requirements_has_dependents(R, requirement) == \E e \in R : e[2] = requirement

Requirements_requirements(R, dependent) == {e[2] : e \in {f \in R : f[1] = dependent}}

Requirements_dependents(R, requirement) == {e[1] : e \in {f \in R : f[2] = requirement}}

(***************************************************************************)
(* Conflicts<const Argument*>: the set of literal pairs as declared, each  *)
(* an undirected edge {arg1, arg2}; with cascading the conflict groups are *)
(* the connected components of the literal pairs.                          *)
(***************************************************************************)
\* Usage constructs m_conflicts{ true }: with cascading.
\* a conflict graph constructed without cascading
NoCascading == FALSE

Cascading == TRUE

\* the literal pairs as a symmetric relation
Symmetric(C) == {<<x, y>> \in (UNION C) \X (UNION C) : x # y /\ {x, y} \in C}

Conflicts_add(C, arg1, arg2) == C \cup {{arg1, arg2}}

Conflicts_remove(C, arg1, arg2) == C \ {{arg1, arg2}}

Conflicts_remove_arg(C, argument) == {e \in C : argument \notin e}

\* arguments literally paired with the argument
Conflicts_conflicts(C, argument) ==
    {x \in UNION C : x # argument /\ {x, argument} \in C}

Conflicts_in_conflict(C, arg1, arg2) ==
    /\ arg1 # arg2
    /\ IF Cascading
       THEN <<arg1, arg2>> \in TransitiveClosure(Symmetric(C))
       ELSE {arg1, arg2} \in C

Conflicts_in_conflict_arg(C, argument) == \E e \in C : argument \in e

(***************************************************************************)
(* Argument, Named_Arg, Unnamed_Arg.  One record shape serves both         *)
(* variants; named() tells them apart and the fields of the other variant  *)
(* keep their initial values.                                              *)
(***************************************************************************)
Named_Arg(name) ==
    [named |-> TRUE, m_name |-> name, m_required |-> FALSE, value |-> <<>>,
     shortcut_char |-> " ", m_type |-> "simple", m_default_value |-> <<>>,
     many |-> FALSE]

Unnamed_Arg(name) ==
    [named |-> FALSE, m_name |-> name, m_required |-> FALSE, value |-> <<>>,
     shortcut_char |-> " ", m_type |-> "simple", m_default_value |-> <<>>,
     many |-> FALSE]

\* the assert of Named_Arg::set_required
Named_Arg_set_required_asserts(arg, required) ==
    (~required) \/ (required /\ arg.m_default_value = <<>>)

\* Named_Arg::set_required and Unnamed_Arg::set_required
Argument_set_required_asserts(arg, required) ==
    IF arg.named THEN Named_Arg_set_required_asserts(arg, required) ELSE TRUE

Argument_set_required(arg, required) == [arg EXCEPT !.m_required = required]

\* a set_type that accepts every type
Named_Arg_set_type_unchecked(arg, type) == TRUE

Named_Arg_set_type_asserts(arg, type) ==
    type # "simple" \/ (type = "simple" /\ arg.m_default_value = <<>>)

Named_Arg_set_type(arg, type) == [arg EXCEPT !.m_type = type]

Named_Arg_set_default_value_asserts(arg, default_value) ==
    /\ default_value = <<>> \/ (default_value # <<>> /\ ~arg.m_required)
    /\ default_value = <<>> \/ (default_value # <<>> /\ arg.m_type # "simple")

Named_Arg_set_default_value(arg, default_value) ==
    [arg EXCEPT !.m_default_value = default_value]

(***************************************************************************)
(* Usage: the registry.  m_arguments maps a name to the argument object it *)
(* owns; m_argsorder and the two graphs hold pointers to these objects,    *)
(* which the model identifies with the key of the object in m_arguments.   *)
(***************************************************************************)
Usage ==
    [m_arguments |-> <<>>, m_argsorder |-> <<>>, m_requirements |-> {},
     m_conflicts |-> {}, m_syntax_valid |-> FALSE]

Known(U, name) == name \in DOMAIN U.m_arguments

\* std::find(m_argsorder.begin(), m_argsorder.end(), ptr) != end
InOrder(U, ptr) == \E k \in 1..Len(U.m_argsorder) : U.m_argsorder[k] = ptr

\* the sequence without its entries equal to x (vector::erase of the found one)
RECURSIVE Without(_, _)
Without(s, x) ==
    IF s = <<>> THEN <<>>
    ELSE IF Head(s) = x THEN Tail(s)
    ELSE <<Head(s)>> \o Without(Tail(s), x)

\* an add_Argument that accepts a name already registered
add_Argument_unchecked(U, argument) == TRUE

add_Argument_asserts(U, argument) == ~Known(U, argument.m_name)

add_Argument(U, argument) ==
    [U EXCEPT !.m_arguments = (argument.m_name :> argument) @@ @,
              !.m_argsorder = Append(@, argument.m_name),
              !.m_syntax_valid = FALSE]

remove_Argument_asserts(U, name) == Known(U, name)

\* a remove_Argument that leaves the conflict pairs of the argument in place
remove_Argument_keeping_conflicts(U, name) ==
    LET purged == IF InOrder(U, name)
                  THEN [U EXCEPT
                          !.m_requirements = Requirements_remove_all(@, name),
                          !.m_argsorder = Without(@, name)]
                  ELSE U
    IN  [purged EXCEPT
           !.m_arguments = [n \in (DOMAIN @) \ {name} |-> @[n]],
           !.m_syntax_valid = FALSE]

remove_Argument(U, name) ==
    LET purged == IF InOrder(U, name)
                  THEN [U EXCEPT
                          !.m_requirements = Requirements_remove_all(@, name),
                          !.m_conflicts = Conflicts_remove_arg(@, name),
                          !.m_argsorder = Without(@, name)]
                  ELSE U
    IN  [purged EXCEPT
           !.m_arguments = [n \in (DOMAIN @) \ {name} |-> @[n]],
           !.m_syntax_valid = FALSE]

\* Usage::remove_all: while (!m_arguments.empty())
\*     remove_Argument(m_arguments[0]->name());
\* m_arguments is an unordered_map keyed by std::string, so m_arguments[0]
\* builds its key from a null character pointer: undefined behaviour.  The
\* call is defined only when the loop body is never entered.
remove_all_defined(U) == DOMAIN U.m_arguments = {}

remove_all(U) == [U EXCEPT !.m_syntax_valid = FALSE]

\* what the undefined key construction does in a build: std::logic_error
\* leaving a noexcept function (std::terminate), or a read through the null
\* pointer (segmentation fault)
Faults == {"terminate", "segfault"}

\* Usage::clear: remove_all, then the help strings are cleared
clear(U) == [remove_all(U) EXCEPT !.m_syntax_valid = FALSE]

\* an add_requirement that tests the declared conflict pair only
add_requirement_asserts_declared_pair(U, dependent, requirement) ==
    /\ dependent # <<>> /\ requirement # <<>>
    /\ dependent # requirement
    /\ Known(U, dependent) /\ Known(U, requirement)
    /\ {dependent, requirement} \notin U.m_conflicts
    /\ ~Requirements_exists(U.m_requirements, dependent, requirement, FALSE)

add_requirement_asserts(U, dependent, requirement) ==
    /\ dependent # <<>> /\ requirement # <<>>
    /\ dependent # requirement
    /\ Known(U, dependent) /\ Known(U, requirement)
    /\ ~Conflicts_in_conflict(U.m_conflicts, dependent, requirement)
    /\ ~Requirements_exists(U.m_requirements, dependent, requirement, FALSE)

add_requirement(U, dependent, requirement) ==
    [U EXCEPT !.m_requirements = Requirements_add(@, dependent, requirement),
              !.m_syntax_valid = FALSE]

remove_requirement_asserts(U, dependent, requirement) ==
    /\ Known(U, dependent) /\ Known(U, requirement)
    /\ Requirements_exists(U.m_requirements, dependent, requirement, FALSE)

remove_requirement(U, dependent, requirement) ==
    [U EXCEPT !.m_requirements = Requirements_remove(@, dependent, requirement),
              !.m_syntax_valid = FALSE]

\* a remove_requirements that accepts an argument taking part in any edge
remove_requirements_asserts_any_edge(U, argument) ==
    /\ Known(U, argument)
    /\ \/ Requirements_has_requirements(U.m_requirements, argument)
       \/ Requirements_has_dependents(U.m_requirements, argument)

remove_requirements_asserts(U, argument) ==
    /\ Known(U, argument)
    /\ Requirements_has_requirements(U.m_requirements, argument)

remove_requirements(U, argument) ==
    [U EXCEPT !.m_requirements = Requirements_remove_requirement(@, argument),
              !.m_syntax_valid = FALSE]

clear_requirements(U) ==
    [U EXCEPT !.m_requirements = {}, !.m_syntax_valid = FALSE]

add_conflict_asserts(U, arg1, arg2) ==
    /\ arg1 # <<>> /\ arg2 # <<>>
    /\ arg1 # arg2
    /\ Known(U, arg1) /\ Known(U, arg2)
    /\ U.m_arguments[arg1].m_required = U.m_arguments[arg2].m_required
    /\ ~(\/ Requirements_exists(U.m_requirements, arg1, arg2, TRUE)
         \/ Requirements_exists(U.m_requirements, arg2, arg1, TRUE))
    /\ ~Conflicts_in_conflict(U.m_conflicts, arg1, arg2)

add_conflict(U, arg1, arg2) ==
    [U EXCEPT !.m_conflicts = Conflicts_add(@, arg1, arg2),
              !.m_syntax_valid = FALSE]

remove_conflict_asserts(U, arg1, arg2) ==
    /\ Known(U, arg1) /\ Known(U, arg2)
    /\ Conflicts_in_conflict(U.m_conflicts, arg1, arg2)

\* a remove_conflict that leaves the pair in place
remove_conflict_keeping_pair(U, arg1, arg2) == [U EXCEPT !.m_syntax_valid = FALSE]

remove_conflict(U, arg1, arg2) ==
    [U EXCEPT !.m_conflicts = Conflicts_remove(@, arg1, arg2),
              !.m_syntax_valid = FALSE]

remove_conflicts_asserts(U, argument) ==
    /\ Known(U, argument)
    /\ Conflicts_in_conflict_arg(U.m_conflicts, argument)

remove_conflicts(U, argument) ==
    [U EXCEPT !.m_conflicts = Conflicts_remove_arg(@, argument),
              !.m_syntax_valid = FALSE]

clear_conflicts(U) ==
    [U EXCEPT !.m_conflicts = {}, !.m_syntax_valid = FALSE]

\* Usage::in_conflict(arg1, arg2)
in_conflict(U, arg1, arg2) == Conflicts_in_conflict(U.m_conflicts, arg1, arg2)

\* Usage::get_conflicts(argument): the direct conflicts of the argument
get_conflicts(U, argument) == Conflicts_conflicts(U.m_conflicts, argument)

\* Usage::get_Argument(name)->set_required(required)
handle_set_required_asserts(U, name, required) ==
    /\ Known(U, name)
    /\ Argument_set_required_asserts(U.m_arguments[name], required)

handle_set_required(U, name, required) ==
    [U EXCEPT !.m_arguments[name] = Argument_set_required(@, required)]

\* dynamic_cast<Named_Arg*>(Usage::get_Argument(name))->set_type(type)
handle_set_type_asserts(U, name, type) ==
    /\ Known(U, name)
    /\ U.m_arguments[name].named
    /\ Named_Arg_set_type_asserts(U.m_arguments[name], type)

handle_set_type(U, name, type) ==
    [U EXCEPT !.m_arguments[name] = Named_Arg_set_type(@, type)]

\* dynamic_cast<Named_Arg*>(Usage::get_Argument(name))->set_default_value(v)
handle_set_default_value_asserts(U, name, default_value) ==
    /\ Known(U, name)
    /\ U.m_arguments[name].named
    /\ Named_Arg_set_default_value_asserts(U.m_arguments[name], default_value)

handle_set_default_value(U, name, default_value) ==
    [U EXCEPT !.m_arguments[name] = Named_Arg_set_default_value(@, default_value)]

(***************************************************************************)
(* The declaration interface as a state machine.  us is the Usage object;  *)
(* last records the latest call, its inputs and whether its asserts held   *)
(* ("ok") or one of them failed ("abort", the object left as it was).       *)
(***************************************************************************)
\* the names a caller uses for arguments
Names == {<<"a">>, <<"b">>, <<"c">>}

\* names given to the rule operations: the names above and the empty name
NameInputs == Names \cup {<<>>}

Outcome(ok) == IF ok THEN "ok" ELSE "abort"

\* a failed assert ends the program: no call follows it
Running == last.res # "abort"

Do_add_Argument ==
    /\ Running
    /\ \E name \in Names :
        LET argument == Named_Arg(name)
            ok == add_Argument_asserts(us, argument)
        IN  /\ us' = IF ok THEN add_Argument(us, argument) ELSE us
            /\ last' = [op |-> "add_Argument", a |-> name, b |-> <<>>,
                        res |-> Outcome(ok)]

Do_remove_Argument ==
    /\ Running
    /\ \E name \in Names :
        LET ok == remove_Argument_asserts(us, name)
        IN  /\ us' = IF ok THEN remove_Argument(us, name) ELSE us
            /\ last' = [op |-> "remove_Argument", a |-> name, b |-> <<>>,
                        res |-> Outcome(ok)]

Do_set_required ==
    /\ Running
    /\ \E name \in DOMAIN us.m_arguments, required \in BOOLEAN :
        LET ok == handle_set_required_asserts(us, name, required)
        IN  /\ us' = IF ok THEN handle_set_required(us, name, required) ELSE us
            /\ last' = [op |-> "set_required", a |-> name, b |-> required,
                        res |-> Outcome(ok)]

Do_add_requirement ==
    /\ Running
    /\ \E dependent \in NameInputs, requirement \in NameInputs :
        LET ok == add_requirement_asserts(us, dependent, requirement)
        IN  /\ ok => Cardinality(us.m_requirements) < MaxRequirements
            /\ us' = IF ok THEN add_requirement(us, dependent, requirement) ELSE us
            /\ last' = [op |-> "add_requirement", a |-> dependent,
                        b |-> requirement, res |-> Outcome(ok)]

Do_remove_requirement ==
    /\ Running
    /\ \E dependent \in Names, requirement \in Names :
        LET ok == remove_requirement_asserts(us, dependent, requirement)
        IN  /\ us' = IF ok THEN remove_requirement(us, dependent, requirement) ELSE us
            /\ last' = [op |-> "remove_requirement", a |-> dependent,
                        b |-> requirement, res |-> Outcome(ok)]

Do_remove_requirements ==
    /\ Running
    /\ \E argument \in Names :
        LET ok == remove_requirements_asserts(us, argument)
        IN  /\ us' = IF ok THEN remove_requirements(us, argument) ELSE us
            /\ last' = [op |-> "remove_requirements", a |-> argument, b |-> <<>>,
                        res |-> Outcome(ok)]

Do_clear_requirements ==
    /\ Running
    /\ us' = clear_requirements(us)
    /\ last' = [op |-> "clear_requirements", a |-> <<>>, b |-> <<>>, res |-> "ok"]

Do_add_conflict ==
    /\ Running
    /\ \E arg1 \in NameInputs, arg2 \in NameInputs :
        LET ok == add_conflict_asserts(us, arg1, arg2)
        IN  /\ ok => Cardinality(us.m_conflicts) < MaxConflicts
            /\ us' = IF ok THEN add_conflict(us, arg1, arg2) ELSE us
            /\ last' = [op |-> "add_conflict", a |-> arg1, b |-> arg2,
                        res |-> Outcome(ok)]

Do_remove_conflict ==
    /\ Running
    /\ \E arg1 \in Names, arg2 \in Names :
        LET ok == remove_conflict_asserts(us, arg1, arg2)
        IN  /\ us' = IF ok THEN remove_conflict(us, arg1, arg2) ELSE us
            /\ last' = [op |-> "remove_conflict", a |-> arg1, b |-> arg2,
                        res |-> Outcome(ok)]

Do_remove_conflicts ==
    /\ Running
    /\ \E argument \in Names :
        LET ok == remove_conflicts_asserts(us, argument)
        IN  /\ us' = IF ok THEN remove_conflicts(us, argument) ELSE us
            /\ last' = [op |-> "remove_conflicts", a |-> argument, b |-> <<>>,
                        res |-> Outcome(ok)]

Do_clear_conflicts ==
    /\ Running
    /\ us' = clear_conflicts(us)
    /\ last' = [op |-> "clear_conflicts", a |-> <<>>, b |-> <<>>, res |-> "ok"]

NoCall == [op |-> "Usage", a |-> <<>>, b |-> <<>>, res |-> "ok"]

Do_set_type ==
    /\ Running
    /\ \E name \in {n \in DOMAIN us.m_arguments : us.m_arguments[n].named},
          type \in Argument_Type :
        LET ok == handle_set_type_asserts(us, name, type)
        IN  /\ us' = IF ok THEN handle_set_type(us, name, type) ELSE us
            /\ last' = [op |-> "set_type", a |-> name, b |-> type,
                        res |-> Outcome(ok)]

\* the default values a caller gives: none, or "d"
DefaultValues == {<<>>, <<"d">>}

Do_set_default_value ==
    /\ Running
    /\ \E name \in {n \in DOMAIN us.m_arguments : us.m_arguments[n].named},
          default_value \in DefaultValues :
        LET ok == handle_set_default_value_asserts(us, name, default_value)
        IN  /\ us' = IF ok THEN handle_set_default_value(us, name, default_value)
                     ELSE us
            /\ last' = [op |-> "set_default_value", a |-> name,
                        b |-> default_value, res |-> Outcome(ok)]

Do_remove_all ==
    /\ Running
    /\ IF remove_all_defined(us)
       THEN /\ us' = remove_all(us)
            /\ last' = [op |-> "remove_all", a |-> <<>>, b |-> <<>>, res |-> "ok"]
       ELSE /\ us' = us
            /\ \E f \in Faults :
                 last' = [op |-> "remove_all", a |-> <<>>, b |-> <<>>,
                          res |-> "abort", fault |-> f]

Do_clear ==
    /\ Running
    /\ IF remove_all_defined(us)
       THEN /\ us' = clear(us)
            /\ last' = [op |-> "clear", a |-> <<>>, b |-> <<>>, res |-> "ok"]
       ELSE /\ us' = us
            /\ \E f \in Faults :
                 last' = [op |-> "clear", a |-> <<>>, b |-> <<>>,
                          res |-> "abort", fault |-> f]

Init ==
    /\ us = Usage
    /\ last = NoCall

\* The rule interface: arguments are registered and removed, rules are
\* added and removed.
Next ==
    \/ Do_add_Argument
    \/ Do_remove_Argument
    \/ Do_add_requirement
    \/ Do_remove_requirement
    \/ Do_remove_requirements
    \/ Do_clear_requirements
    \/ Do_add_conflict
    \/ Do_remove_conflict
    \/ Do_remove_conflicts
    \/ Do_clear_conflicts

Spec == Init /\ [][Next]_vars

\* The rule interface together with remove_all and clear.
NextClear ==
    \/ Next
    \/ Do_remove_all
    \/ Do_clear

SpecClear == Init /\ [][NextClear]_vars

\* The rule interface together with changes of the required flag of a
\* registered argument through the handle get_Argument returns.
NextHandle ==
    \/ Next
    \/ Do_set_required

SpecHandle == Init /\ [][NextHandle]_vars

\* The setters of the argument objects: two named arguments and one unnamed
\* argument are registered as constructed, then changed through their handles.
InitArg ==
    /\ us = add_Argument(
                add_Argument(add_Argument(Usage, Named_Arg(<<"a">>)),
                             Named_Arg(<<"b">>)),
                Unnamed_Arg(<<"c">>))
    /\ last = NoCall

NextArg ==
    \/ Do_set_required
    \/ Do_set_type
    \/ Do_set_default_value

SpecArg == InitArg /\ [][NextArg]_vars

(***************************************************************************)
(* Usage::set_parameters.  The result strings are kept as records: the     *)
(* empty string is Success, "?" is HelpRequested, and each diagnostic      *)
(* carries the values formatted into its message.                          *)
(***************************************************************************)
Success == [kind |-> "Success"]
HelpRequested == [kind |-> "HelpRequested"]
NO_ARGUMENT == [kind |-> "NoArgument"]
TYPE_MISMATCH(name, given, expected) ==
    [kind |-> "TypeMismatch", argument |-> name, given |-> given,
     expected |-> expected]
UNKNOW_ARGUMENT(p) == [kind |-> "UnknownArgument", token |-> p]
SYNTAX_ERROR(i, token) == [kind |-> "SyntaxError", number |-> i, token |-> token]
REQUIRED_ARGUMENT(name) == [kind |-> "MissingRequired", argument |-> name]
CONFLICT(name1, name2) ==
    [kind |-> "ConflictingArguments", argument1 |-> name1, argument2 |-> name2]

\* m_argsorder[i]->value.push_back(value), i counted from 1
push_back(args, order, i, value) ==
    [args EXCEPT ![order[i]].value = Append(@, value)]

\* an m_check_unnamed that takes an argument holding a value for a set one
m_check_unnamed_by_value(order, value, st) ==
    IF st.many
    THEN [found |-> FALSE,
          st |-> [st EXCEPT !.args = push_back(@, order, st.unnamed, value)]]
    ELSE LET free == {i \in 1..Len(order) :
                        ~st.args[order[i]].named /\ st.args[order[i]].value = <<>>}
         IN  IF free = {}
             THEN [found |-> FALSE, st |-> st]
             ELSE LET i == CHOOSE k \in free : \A m \in free : k <= m
                  IN  [found |-> TRUE,
                       st |-> [args |-> push_back(st.args, order, i, value),
                               set_args |-> [st.set_args EXCEPT ![i] = TRUE],
                               many |-> st.args[order[i]].many,
                               unnamed |-> i]]

\* The parser's locals and the argument objects it writes:
\* st = [args, set_args, many, unnamed].
m_check_unnamed(order, value, st) ==
    IF st.many
    THEN [found |-> FALSE,
          st |-> [st EXCEPT !.args = push_back(@, order, st.unnamed, value)]]
    ELSE LET free == {i \in 1..Len(order) :
                        ~st.args[order[i]].named /\ ~st.set_args[i]}
         IN  IF free = {}
             THEN [found |-> FALSE, st |-> st]
             ELSE LET i == CHOOSE k \in free : \A m \in free : k <= m
                  IN  [found |-> TRUE,
                       st |-> [args |-> push_back(st.args, order, i, value),
                               set_args |-> [st.set_args EXCEPT ![i] = TRUE],
                               many |-> st.args[order[i]].many,
                               unnamed |-> i]]

\* an m_check_type that assigns the value whatever the type of the token
m_check_type_untyped(order, p, type_p, value, st) ==
    LET hit == {i \in 1..Len(order) :
                  /\ st.args[order[i]].named
                  /\ ~st.set_args[i]
                  /\ \/ p = st.args[order[i]].m_name
                     \/ p = <<st.args[order[i]].shortcut_char>>}
    IN  IF hit = {}
        THEN [ret |-> UNKNOW_ARGUMENT(p), st |-> st]
        ELSE LET i == CHOOSE k \in hit : \A m \in hit : k <= m
             IN  [ret |-> Success,
                  st |-> [st EXCEPT
                            !.args = push_back(@, order, i, value),
                            !.set_args = [@ EXCEPT ![i] = TRUE]]]

\* an m_check_type that also looks at the arguments already set
m_check_type_rematching(order, p, type_p, value, st) ==
    LET hit == {i \in 1..Len(order) :
                  /\ st.args[order[i]].named
                  /\ \/ p = st.args[order[i]].m_name
                     \/ p = <<st.args[order[i]].shortcut_char>>}
    IN  IF hit = {}
        THEN [ret |-> UNKNOW_ARGUMENT(p), st |-> st]
        ELSE LET i == CHOOSE k \in hit : \A m \in hit : k <= m
                 type_a == st.args[order[i]].m_type
             IN  IF type_p # type_a
                 THEN [ret |-> TYPE_MISMATCH(st.args[order[i]].m_name, type_p, type_a),
                       st |-> st]
                 ELSE [ret |-> Success,
                       st |-> [st EXCEPT
                                 !.args = push_back(@, order, i, value),
                                 !.set_args = [@ EXCEPT ![i] = TRUE]]]

m_check_type(order, p, type_p, value, st) ==
    LET hit == {i \in 1..Len(order) :
                  /\ st.args[order[i]].named
                  /\ ~st.set_args[i]
                  /\ \/ p = st.args[order[i]].m_name
                     \/ p = <<st.args[order[i]].shortcut_char>>}
    IN  IF hit = {}
        THEN [ret |-> UNKNOW_ARGUMENT(p), st |-> st]
        ELSE LET i == CHOOSE k \in hit : \A m \in hit : k <= m
                 type_a == st.args[order[i]].m_type
             IN  IF type_p # type_a
                 THEN [ret |-> TYPE_MISMATCH(st.args[order[i]].m_name, type_p, type_a),
                       st |-> st]
                 ELSE [ret |-> Success,
                       st |-> [st EXCEPT
                                 !.args = push_back(@, order, i, value),
                                 !.set_args = [@ EXCEPT ![i] = TRUE]]]

\* One named token, after the switch character was erased: p is the rest of
\* the token, i its index in argv, token the whole argv[i].
m_parser_named(order, i, token, p0, st0) ==
    LET st1 == [st0 EXCEPT !.many = FALSE]
        quote == Find(p0, "\"")
        quoted == quote # npos
        value1 == IF quoted THEN Substr(p0, quote + 1, Len(p0) - quote - 1) ELSE <<>>
        p1 == IF quoted THEN Erase(p0, quote, Len(p0) - 1) ELSE p0
        colon == Find(p1, ":")
        sgn == p1[Len(p1)]
    IN  IF p1 = <<>> THEN [ret |-> SYNTAX_ERROR(i, token), st |-> st1]
        ELSE IF colon # npos
        THEN LET value2 == IF colon < Len(p1) - 1
                           THEN Substr(p1, colon + 1, Len(p1) - colon) \o value1
                           ELSE value1
                 p2 == Erase(p1, colon, Len(p1) - colon)
             IN  IF p2 = <<>> THEN [ret |-> SYNTAX_ERROR(i, token), st |-> st1]
                 ELSE m_check_type(order, p2, "string", value2, st1)
        ELSE IF sgn = "+" \/ sgn = "-"
        THEN LET p2 == Erase(p1, Len(p1) - 1, Len(p1))
             IN  IF value1 # <<>> THEN [ret |-> SYNTAX_ERROR(i, token), st |-> st1]
                 ELSE IF p2 = <<>> THEN [ret |-> SYNTAX_ERROR(i, token), st |-> st1]
                 ELSE m_check_type(order, p2, "boolean",
                                   IF sgn = "+" THEN <<"t","r","u","e">>
                                   ELSE <<"f","a","l","s","e">>, st1)
        ELSE IF value1 # <<>> THEN [ret |-> SYNTAX_ERROR(i, token), st |-> st1]
             ELSE m_check_type(order, p1, "simple", <<"t","r","u","e">>, st1)

\* The token loop of m_parser from index i (argv[0], the program name, is
\* argv[1] of the model, so argv[i] is argv[i + 1] here and argc is Len(argv)).
RECURSIVE m_parser_from(_, _, _, _)
m_parser_from(order, argv, i, st) ==
    IF i >= Len(argv) THEN [ret |-> Success, st |-> st]
    ELSE LET token == argv[i + 1]
             named == token # <<>> /\ token[1] = switch_char
             p == IF named THEN Erase(token, 0, 1) ELSE token
         IN  IF token = <<>> THEN m_parser_from(order, argv, i + 1, st)
             ELSE IF p = <<>> THEN [ret |-> SYNTAX_ERROR(i, token), st |-> st]
             ELSE IF p = help_arg THEN [ret |-> HelpRequested, st |-> st]
             ELSE IF ~named
             THEN LET r == m_check_unnamed(order, p, st)
                  IN  IF ~r.found
                      THEN [ret |-> SYNTAX_ERROR(i, token), st |-> r.st]
                      ELSE m_parser_from(order, argv, i + 1, r.st)
             ELSE LET r == m_parser_named(order, i, token, p, st)
                  IN  IF r.ret # Success THEN r
                      ELSE m_parser_from(order, argv, i + 1, r.st)

m_parser(U, argv, set_args) ==
    m_parser_from(U.m_argsorder, argv, 1,
                  [args |-> U.m_arguments, set_args |-> set_args,
                   many |-> FALSE, unnamed |-> 0])

\* index of the object ptr in m_argsorder, 0 when std::find returns end()
IndexOf(order, ptr) ==
    IF \E k \in 1..Len(order) : order[k] = ptr
    THEN CHOOSE k \in 1..Len(order) : order[k] = ptr /\ \A m \in 1..(k - 1) : order[m] # ptr
    ELSE 0

\* an m_check_requirements that applies the default value whatever the
\* requirements of the argument
m_check_requirements_unconditional(U, arg_index, v) ==
    LET arg == v.args[U.m_argsorder[arg_index]]
        dval == arg.m_default_value
    IN  IF ~v.set_args[arg_index] /\ arg.named /\ dval # <<>>
        THEN [args |-> push_back(v.args, U.m_argsorder, arg_index, dval),
              set_args |-> [v.set_args EXCEPT ![arg_index] = TRUE]]
        ELSE v

\* v = [args, set_args]: the argument objects and the local set_args.
m_check_requirements(U, arg_index, v) ==
    LET arg == v.args[U.m_argsorder[arg_index]]
        dval == arg.m_default_value
        reqs == Requirements_requirements(U.m_requirements, U.m_argsorder[arg_index])
        req_defined ==
            \/ reqs = {}
            \/ \E req \in reqs :
                 /\ IndexOf(U.m_argsorder, req) # 0
                 /\ v.set_args[IndexOf(U.m_argsorder, req)]
    IN  IF ~v.set_args[arg_index] /\ arg.named /\ dval # <<>> /\ req_defined
        THEN [args |-> push_back(v.args, U.m_argsorder, arg_index, dval),
              set_args |-> [v.set_args EXCEPT ![arg_index] = TRUE]]
        ELSE v

\* The scan of m_check_argument from index i: ret is the index of the first
\* required argument found missing, 0 when there is none (size_t -1).
RECURSIVE m_check_argument_from(_, _, _)
m_check_argument_from(U, i, v) ==
    IF i > Len(U.m_argsorder) THEN [ret |-> 0, v |-> v]
    ELSE LET arg == v.args[U.m_argsorder[i]]
             cons == Conflicts_conflicts(U.m_conflicts, U.m_argsorder[i])
             con_defined ==
                 \E con \in cons :
                    /\ IndexOf(U.m_argsorder, con) # 0
                    /\ v.set_args[IndexOf(U.m_argsorder, con)]
         IN  IF ~v.set_args[i] /\ arg.m_required /\ ~con_defined
             THEN [ret |-> i, v |-> v]
             ELSE m_check_argument_from(U, i + 1, m_check_requirements(U, i, v))

\* a first scan that exempts a required argument when any member of its
\* conflict group is set
RECURSIVE m_check_argument_from_group(_, _, _)
m_check_argument_from_group(U, i, v) ==
    IF i > Len(U.m_argsorder) THEN [ret |-> 0, v |-> v]
    ELSE LET arg == v.args[U.m_argsorder[i]]
             con_defined ==
                 \E j \in 1..Len(U.m_argsorder) :
                    /\ Conflicts_in_conflict(U.m_conflicts, U.m_argsorder[i],
                                             U.m_argsorder[j])
                    /\ v.set_args[j]
         IN  IF ~v.set_args[i] /\ arg.m_required /\ ~con_defined
             THEN [ret |-> i, v |-> v]
             ELSE m_check_argument_from_group(U, i + 1, m_check_requirements(U, i, v))

m_check_argument_by_group(U, v) == m_check_argument_from_group(U, 1, v)

m_check_argument(U, v) == m_check_argument_from(U, 1, v)

\* a second scan that tests the declared conflict pair only, without cascading
Violations_declared_pair(U, set_args) ==
    {ij \in (1..Len(U.m_argsorder)) \X (1..Len(U.m_argsorder)) :
        /\ set_args[ij[1]]
        /\ ij[1] # ij[2]
        /\ \/ /\ set_args[ij[2]]
              /\ {U.m_argsorder[ij[1]], U.m_argsorder[ij[2]]} \in U.m_conflicts
           \/ /\ ~set_args[ij[2]]
              /\ Requirements_exists(U.m_requirements, U.m_argsorder[ij[1]],
                                     U.m_argsorder[ij[2]], TRUE)}

\* the ordered pairs (i, j) at which the second scan of m_check_dependencies
\* returns a diagnostic
Violations(U, set_args) ==
    {ij \in (1..Len(U.m_argsorder)) \X (1..Len(U.m_argsorder)) :
        /\ set_args[ij[1]]
        /\ ij[1] # ij[2]
        /\ \/ /\ set_args[ij[2]]
              /\ Conflicts_in_conflict(U.m_conflicts, U.m_argsorder[ij[1]],
                                       U.m_argsorder[ij[2]])
           \/ /\ ~set_args[ij[2]]
              /\ Requirements_exists(U.m_requirements, U.m_argsorder[ij[1]],
                                     U.m_argsorder[ij[2]], TRUE)}

\* an m_check_dependencies whose second scan runs over j first, then over i
m_check_dependencies_inner_first(U, v0) ==
    LET a == m_check_argument(U, v0)
        v == a.v
        bad == Violations(U, v.set_args)
    IN  IF a.ret # 0
        THEN [ret |-> REQUIRED_ARGUMENT(U.m_argsorder[a.ret]), v |-> v]
        ELSE IF bad = {} THEN [ret |-> Success, v |-> v]
        ELSE LET ij == CHOOSE x \in bad : \A y \in bad :
                           x[2] < y[2] \/ (x[2] = y[2] /\ x[1] <= y[1])
                 ni == U.m_argsorder[ij[1]]
                 nj == U.m_argsorder[ij[2]]
             IN  [ret |-> IF v.set_args[ij[2]] THEN CONFLICT(ni, nj)
                          ELSE REQUIRED_ARGUMENT(nj),
                  v |-> v]

m_check_dependencies(U, v0) ==
    LET a == m_check_argument(U, v0)
        v == a.v
        bad == Violations(U, v.set_args)
    IN  IF a.ret # 0
        THEN [ret |-> REQUIRED_ARGUMENT(U.m_argsorder[a.ret]), v |-> v]
        ELSE IF bad = {} THEN [ret |-> Success, v |-> v]
        ELSE LET ij == CHOOSE x \in bad : \A y \in bad :
                           x[1] < y[1] \/ (x[1] = y[1] /\ x[2] <= y[2])
                 ni == U.m_argsorder[ij[1]]
                 nj == U.m_argsorder[ij[2]]
             IN  [ret |-> IF v.set_args[ij[2]] THEN CONFLICT(ni, nj)
                          ELSE REQUIRED_ARGUMENT(nj),
                  v |-> v]

\* a set_parameters that runs the validation also after the token scan failed
set_parameters_always_validating(U, argv) ==
    IF Len(argv) = 0
    THEN [ret |-> NO_ARGUMENT, us |-> U, set_args |-> <<>>]
    ELSE LET set_args == [i \in 1..Len(U.m_argsorder) |-> FALSE]
             parsed == m_parser(U, argv, set_args)
             checked == m_check_dependencies(U,
                            [args |-> parsed.st.args, set_args |-> parsed.st.set_args])
         IN  [ret |-> IF parsed.ret # Success THEN parsed.ret ELSE checked.ret,
              us |-> [U EXCEPT !.m_arguments = checked.v.args],
              set_args |-> checked.v.set_args]

\* a set_parameters without the test of argc
set_parameters_any_argc(U, argv) ==
    LET set_args == [i \in 1..Len(U.m_argsorder) |-> FALSE]
        parsed == m_parser(U, argv, set_args)
        checked == m_check_dependencies(U,
                       [args |-> parsed.st.args, set_args |-> parsed.st.set_args])
    IN  IF parsed.ret # Success
        THEN [ret |-> parsed.ret,
              us |-> [U EXCEPT !.m_arguments = parsed.st.args],
              set_args |-> parsed.st.set_args]
        ELSE [ret |-> checked.ret,
              us |-> [U EXCEPT !.m_arguments = checked.v.args],
              set_args |-> checked.v.set_args]

\* set_parameters(argc, argv) with argc = Len(argv): the result string, the
\* Usage object after the call and the final value of the local set_args.
set_parameters(U, argv) ==
    IF Len(argv) = 0
    THEN [ret |-> NO_ARGUMENT, us |-> U, set_args |-> <<>>]
    ELSE LET set_args == [i \in 1..Len(U.m_argsorder) |-> FALSE]
             parsed == m_parser(U, argv, set_args)
             checked == m_check_dependencies(U,
                            [args |-> parsed.st.args, set_args |-> parsed.st.set_args])
         IN  IF parsed.ret # Success
             THEN [ret |-> parsed.ret,
                   us |-> [U EXCEPT !.m_arguments = parsed.st.args],
                   set_args |-> parsed.st.set_args]
             ELSE [ret |-> checked.ret,
                   us |-> [U EXCEPT !.m_arguments = checked.v.args],
                   set_args |-> checked.v.set_args]

(***************************************************************************)
(* Parsing runs: a registry is declared through the declaration interface  *)
(* (three named arguments of type string, each optional, required or       *)
(* optional with a default value, then up to MaxRules rules), and one      *)
(* argument vector is given to set_parameters.                             *)
(***************************************************************************)
ArgKinds == {"optional", "required", "default"}

\* Named_Arg n{name}; n.set_type(string); then set_required(true) or
\* set_default_value("d") as the kind says.
Prototype(name, kind) ==
    LET n1 == Named_Arg_set_type(Named_Arg(name), "string")
    IN  IF kind = "required" THEN Argument_set_required(n1, TRUE)
        ELSE IF kind = "default" THEN Named_Arg_set_default_value(n1, <<"d">>)
        ELSE n1

Declared(kinds) ==
    add_Argument(
        add_Argument(
            add_Argument(Usage, Prototype(<<"a">>, kinds[<<"a">>])),
            Prototype(<<"b">>, kinds[<<"b">>])),
        Prototype(<<"c">>, kinds[<<"c">>]))

RuleOps ==
    {[op |-> o, a |-> x, b |-> y] :
        o \in {"add_requirement", "add_conflict"}, x \in Names, y \in Names}

Scripts == UNION {[1..n -> RuleOps] : n \in 0..MaxRules}

\* the registry after the calls of the script, Aborted when an assert fails
Aborted == [aborted |-> TRUE]

RECURSIVE Run(_, _)
Run(U, script) ==
    IF script = <<>> THEN U
    ELSE LET c == Head(script)
         IN  IF c.op = "add_requirement"
             THEN IF add_requirement_asserts(U, c.a, c.b)
                  THEN Run(add_requirement(U, c.a, c.b), Tail(script))
                  ELSE Aborted
             ELSE IF add_conflict_asserts(U, c.a, c.b)
                  THEN Run(add_conflict(U, c.a, c.b), Tail(script))
                  ELSE Aborted

program_name == <<"u">>

\* the tokens of the argument vectors
Tokens ==
    {<<"-", "a", ":", "1">>, <<"-", "b", ":", "1">>, <<"-", "c", ":", "1">>,
     <<"-", "c">>}

\* argv with argc = Len(argv): the empty vector, or the program name
\* followed by up to MaxTokens tokens
ArgVectors ==
    {<<>>} \cup
    UNION {{<<program_name>> \o t : t \in [1..n -> Tokens]} : n \in 0..MaxTokens}

Do_set_parameters ==
    /\ last.op # "set_parameters"
    /\ \E argv \in ArgVectors :
        LET r == set_parameters(us, argv)
        IN  /\ us' = r.us
            /\ last' = [op |-> "set_parameters", argv |-> argv, ret |-> r.ret,
                        set_args |-> r.set_args, res |-> "ok"]

InitParse ==
    /\ \E kinds \in [Names -> ArgKinds], script \in Scripts :
          /\ Run(Declared(kinds), script) # Aborted
          /\ us = Run(Declared(kinds), script)
    /\ last = NoCall

NextParse == Do_set_parameters

SpecParse == InitParse /\ [][NextParse]_vars

(***************************************************************************)
(* Parsing of richer command lines.  The registry holds a named argument a  *)
(* of type string with the shortcut s, an argument b that is named (of any *)
(* type, with the shortcut s as well or with none) or unnamed, and an      *)
(* unnamed argument c.                                                     *)
(***************************************************************************)
\* n.shortcut_char = c
set_shortcut_char(arg, c) == [arg EXCEPT !.shortcut_char = c]

\* u.many = many
set_many(arg, many) == [arg EXCEPT !.many = many]

BKinds == {"string", "simple", "boolean", "unnamed"}

ShortcutsOfB == {"s", " "}

PrototypeB(kind, shortcut) ==
    IF kind = "unnamed" THEN Unnamed_Arg(<<"b">>)
    ELSE set_shortcut_char(Named_Arg_set_type(Named_Arg(<<"b">>), kind), shortcut)

PrototypeC(many, required) ==
    Argument_set_required(set_many(Unnamed_Arg(<<"c">>), many), required)

Registry(ka, kb, sb, many, required) ==
    add_Argument(
        add_Argument(
            add_Argument(Usage, set_shortcut_char(Prototype(<<"a">>, ka), "s")),
            PrototypeB(kb, sb)),
        PrototypeC(many, required))

Registries ==
    {Registry(ka, kb, sb, many, required) :
        ka \in ArgKinds, kb \in BKinds, sb \in ShortcutsOfB,
        many \in BOOLEAN, required \in BOOLEAN}

\* unnamed values (one of them spelled like the help token), the help
\* request, tokens naming a by name and by shortcut, tokens naming b as a
\* simple and as a boolean argument, the bare switch character, and a name
\* no argument has
ParseTokens ==
    {<<"x">>, <<"h">>, <<"-", "h">>, <<"-", "a", ":", "1">>,
     <<"-", "s", ":", "2">>, <<"-", "b">>, <<"-", "b", "+">>, <<"-">>,
     <<"-", "z">>}

ParseVectors ==
    {<<>>} \cup
    UNION {{<<program_name>> \o t : t \in [1..n -> ParseTokens]} : n \in 0..MaxTokens}

InitRegistry ==
    /\ us \in Registries
    /\ last = NoCall

\* one call of set_parameters on a registry as declared
Do_set_parameters_once ==
    /\ last.op # "set_parameters"
    /\ \E argv \in ParseVectors :
        LET r == set_parameters(us, argv)
        IN  /\ us' = r.us
            /\ last' = [op |-> "set_parameters", argv |-> argv, ret |-> r.ret,
                        set_args |-> r.set_args, res |-> "ok"]

NextTokens == Do_set_parameters_once

SpecTokens == InitRegistry /\ [][NextTokens]_vars

\* set_parameters called again on the same registry
MaxCalls == 2

CallTokens == {<<"x">>, <<"-", "a", ":", "1">>, <<"-", "b">>, <<"-", "z">>}

CallVectors ==
    {<<>>} \cup
    UNION {{<<program_name>> \o t : t \in [1..n -> CallTokens]} : n \in 0..MaxTokens}

Calls == IF last.op = "set_parameters" THEN last.calls ELSE 0

Do_set_parameters_again ==
    /\ Calls < MaxCalls
    /\ \E argv \in CallVectors :
        LET r == set_parameters(us, argv)
        IN  /\ us' = r.us
            /\ last' = [op |-> "set_parameters", argv |-> argv, ret |-> r.ret,
                        set_args |-> r.set_args, res |-> "ok",
                        calls |-> Calls + 1,
                        before |-> IF Calls = 0 THEN NoCall
                                   ELSE [argv |-> last.argv, ret |-> last.ret]]

NextCalls == Do_set_parameters_again

SpecCalls == InitRegistry /\ [][NextCalls]_vars

\* Command lines that try the shapes of a named token: the empty token, the
\* bare switch character, tokens without a name before the colon, the sign
\* or the quote, tokens with a quoted value, and a token whose name part is
\* one space.
SyntaxTokens ==
    {<<>>, <<"x">>, <<"-">>, <<"-", "-">>, <<"-", "+">>, <<"-", ":", "1">>,
     <<"-", "\"">>, <<"-", "\"", "2">>,
     <<"-", "a", ":", "1">>, <<"-", "a", ":", "\"", "2">>,
     <<"-", "b">>, <<"-", "b", "+">>, <<"-", "b", "-">>,
     <<"-", "b", "\"", "2">>, <<"-", "b", "+", "\"", "2">>,
     <<"-", " ">>, <<"-", " ", ":", "1">>}

SyntaxVectors ==
    UNION {{<<program_name>> \o t : t \in [1..n -> SyntaxTokens]} : n \in 0..MaxTokens}

Do_set_parameters_syntax ==
    /\ last.op # "set_parameters"
    /\ \E argv \in SyntaxVectors :
        LET r == set_parameters(us, argv)
        IN  /\ us' = r.us
            /\ last' = [op |-> "set_parameters", argv |-> argv, ret |-> r.ret,
                        set_args |-> r.set_args, res |-> "ok"]

NextSyntax == Do_set_parameters_syntax

SpecSyntax == InitRegistry /\ [][NextSyntax]_vars

(***************************************************************************)
(* Properties.  The rules are read here through paths over the declared    *)
(* edges, independently of the closure the operations compute.             *)
(***************************************************************************)

\* there is a path of at most n edges of E from x to y
RECURSIVE PathWithin(_, _, _, _)
PathWithin(E, x, y, n) ==
    /\ n > 0
    /\ \/ <<x, y>> \in E
       \/ \E e \in E : e[1] = x /\ PathWithin(E, e[2], y, n - 1)

\* x requires y directly or through a chain of requirements
Requires(U, x, y) ==
    PathWithin(U.m_requirements, x, y, Cardinality(U.m_requirements))

\* the declared conflict pairs, in both directions
ConflictEdges(U) == {e \in Names \X Names : {e[1], e[2]} \in U.m_conflicts}

\* x and y are distinct members of one conflict group
SameGroup(U, x, y) ==
    /\ x # y
    /\ PathWithin(ConflictEdges(U), x, y, Cardinality(ConflictEdges(U)))

\* the arguments the last set_parameters call left marked as set
SetNames ==
    {us.m_argsorder[i] : i \in {k \in 1..Len(us.m_argsorder) : last.set_args[k]}}

ParseSucceeded == last.op = "set_parameters" /\ last.ret = Success

\* C1: whenever set_parameters returns the empty string, no two distinct set
\* arguments are in one conflict group, and every argument that a set
\* argument requires, directly or transitively, is set as well.
C1_SuccessSatisfiesRules ==
    ParseSucceeded =>
        /\ \A x \in SetNames, y \in SetNames : ~SameGroup(us, x, y)
        /\ \A x \in SetNames, y \in DOMAIN us.m_arguments :
              Requires(us, x, y) => y \in SetNames

\* C1 witness: a successful parse of a registry holding a requirement and a
\* conflict, in which a set argument has a requirement.
C1_Witness ==
    /\ ParseSucceeded
    /\ us.m_conflicts # {}
    /\ \E x \in SetNames, y \in SetNames : <<x, y>> \in us.m_requirements

\* C2: no two arguments are at once in one conflict group and linked by a
\* direct or transitive requirement in either direction.
C2_RequirementsExcludeConflicts ==
    \A x \in Names, y \in Names :
        SameGroup(us, x, y) => ~Requires(us, x, y) /\ ~Requires(us, y, x)

\* the invariant of a named argument
NamedArgInvariant(arg) ==
    arg.m_default_value # <<>> => ~arg.m_required /\ arg.m_type # "simple"

\* C3: every named argument with a non-empty default value is optional and
\* not of type simple, and each setter call that would break this aborts and
\* changes nothing: set_required(true) with a non-empty default,
\* set_type(simple) with a non-empty default, set_default_value(non-empty) on
\* a required argument or on an argument of type simple.
C3_NamedArgInvariant ==
    [][/\ \A n \in DOMAIN us'.m_arguments :
             us'.m_arguments[n].named => NamedArgInvariant(us'.m_arguments[n])
       /\ last'.op \in {"set_required", "set_type", "set_default_value"} =>
             LET arg == us.m_arguments[last'.a]
                 breaks ==
                    /\ arg.named
                    /\ \/ /\ last'.op = "set_required"
                          /\ last'.b = TRUE
                          /\ arg.m_default_value # <<>>
                       \/ /\ last'.op = "set_type"
                          /\ last'.b = "simple"
                          /\ arg.m_default_value # <<>>
                       \/ /\ last'.op = "set_default_value"
                          /\ last'.b # <<>>
                          /\ arg.m_required \/ arg.m_type = "simple"
             IN  IF breaks
                 THEN last'.res = "abort" /\ us' = us
                 ELSE last'.res = "ok"]_vars

\* C3 witness: set_required(true) has aborted on a named argument that holds
\* a non-empty default value.
C3_Witness ==
    /\ last.op = "set_required"
    /\ last.res = "abort"
    /\ us.m_arguments[last.a].named
    /\ us.m_arguments[last.a].m_default_value # <<>>

\* C4: all members of one conflict group have the same required status, also
\* in groups formed by cascading and after the required flag of a registered
\* argument is changed through its handle.
C4_UniformRequiredInGroups ==
    \A x \in DOMAIN us.m_arguments, y \in DOMAIN us.m_arguments :
        SameGroup(us, x, y) =>
            us.m_arguments[x].m_required = us.m_arguments[y].m_required

\* C5: when exactly the conflicts (A,B) and (B,C) are declared, in_conflict(A,C)
\* is true, get_conflicts(A) is exactly {B}, and in_conflict is symmetric.
C5_ConflictCascading ==
    /\ \A A \in Names, B \in Names, C \in Names :
          (A # C /\ us.m_conflicts = {{A, B}, {B, C}}) =>
              /\ in_conflict(us, A, C)
              /\ {A, C} \notin us.m_conflicts
              /\ get_conflicts(us, A) = {B}
    /\ \A x \in DOMAIN us.m_arguments, y \in DOMAIN us.m_arguments :
          in_conflict(us, x, y) <=> in_conflict(us, y, x)

\* C5 witness: add_conflict has just completed a chain of two declared pairs.
C5_Witness ==
    /\ last.op = "add_conflict"
    /\ last.res = "ok"
    /\ \E A \in Names, B \in Names, C \in Names :
          A # C /\ us.m_conflicts = {{A, B}, {B, C}}

\* C6: add_requirement(dependent, requirement) aborts and changes nothing when
\* a name is empty or unknown, when the two names are equal, when the two
\* arguments are in one conflict group, or when the edge already exists;
\* otherwise it adds exactly that edge and changes no other edge and no
\* conflict pair.
C6_add_requirement ==
    [][last'.op = "add_requirement" =>
         LET d == last'.a
             r == last'.b
             refused ==
                \/ d = <<>> \/ r = <<>>
                \/ d \notin DOMAIN us.m_arguments
                \/ r \notin DOMAIN us.m_arguments
                \/ d = r
                \/ SameGroup(us, d, r)
                \/ <<d, r>> \in us.m_requirements
         IN  IF refused
             THEN last'.res = "abort" /\ us' = us
             ELSE /\ last'.res = "ok"
                  /\ <<d, r>> \notin us.m_requirements
                  /\ us'.m_requirements = us.m_requirements \cup {<<d, r>>}
                  /\ us'.m_conflicts = us.m_conflicts
                  /\ us'.m_arguments = us.m_arguments
                  /\ us'.m_argsorder = us.m_argsorder]_vars

\* C6 witness: add_requirement has aborted on two arguments that are in one
\* conflict group through cascading only.
C6_Witness ==
    /\ last.op = "add_requirement"
    /\ last.res = "abort"
    /\ SameGroup(us, last.a, last.b)
    /\ {last.a, last.b} \notin us.m_conflicts

\* C7: remove_conflict(a, b) aborts and changes nothing whenever the pair
\* (a,b) is not a declared pair, also when a and b are in one conflict group
\* through cascading only.
C7_remove_conflict_NotFound ==
    [][(last'.op = "remove_conflict" /\ {last'.a, last'.b} \notin us.m_conflicts)
          => (last'.res = "abort" /\ us' = us)]_vars

\* the requirement edges in which the argument is dependent or requirement
EdgesOf(U, argument) ==
    {e \in U.m_requirements : e[1] = argument \/ e[2] = argument}

RECURSIVE Others(_, _)
Others(s, x) ==
    IF s = <<>> THEN <<>>
    ELSE IF Head(s) = x THEN Others(Tail(s), x)
    ELSE <<Head(s)>> \o Others(Tail(s), x)

\* C9: remove_Argument(name) returns for every registered name; afterwards the
\* name is absent from the map and from the declaration order, no
\* requirement edge and no conflict pair holds it, and the edges between the
\* other arguments, the other arguments and their relative order are
\* unchanged.
C9_remove_Argument ==
    [][(last'.op = "remove_Argument" /\ last'.a \in DOMAIN us.m_arguments) =>
         LET name == last'.a
         IN  /\ last'.res = "ok"
             /\ DOMAIN us'.m_arguments = DOMAIN us.m_arguments \ {name}
             /\ \A n \in DOMAIN us'.m_arguments :
                   us'.m_arguments[n] = us.m_arguments[n]
             /\ us'.m_argsorder = Others(us.m_argsorder, name)
             /\ us'.m_requirements = us.m_requirements \ EdgesOf(us, name)
             /\ us'.m_conflicts = {c \in us.m_conflicts : name \notin c}
             /\ \A e \in us'.m_requirements : e[1] # name /\ e[2] # name
             /\ \A c \in us'.m_conflicts : name \notin c]_vars

\* C9 witness: an argument has been removed from between two others, which
\* keep the conflict declared between them.
C9_Witness ==
    /\ last.op = "remove_Argument"
    /\ last.res = "ok"
    /\ last.a = <<"b">>
    /\ us.m_argsorder = <<<<"a">>, <<"c">>>>
    /\ us.m_conflicts = {{<<"a">>, <<"c">>}}

\* C10: add_Argument aborts when the name is registered and remove_Argument
\* aborts when it is not, both changing nothing; the map and the declaration
\* order hold the same names, each once; a registered argument is appended
\* to the order and a removed one leaves the order of the others unchanged.
C10_MapAndOrder ==
    [][/\ DOMAIN us'.m_arguments =
             {us'.m_argsorder[k] : k \in 1..Len(us'.m_argsorder)}
       /\ Cardinality(DOMAIN us'.m_arguments) = Len(us'.m_argsorder)
       /\ last'.op = "add_Argument" =>
             IF last'.a \in DOMAIN us.m_arguments
             THEN last'.res = "abort" /\ us' = us
             ELSE /\ last'.res = "ok"
                  /\ us'.m_argsorder = Append(us.m_argsorder, last'.a)
       /\ last'.op = "remove_Argument" =>
             IF last'.a \notin DOMAIN us.m_arguments
             THEN last'.res = "abort" /\ us' = us
             ELSE /\ last'.res = "ok"
                  /\ us'.m_argsorder = Others(us.m_argsorder, last'.a)]_vars

\* C10 witness: add_Argument has aborted on a name that is registered, three
\* arguments being registered in an order other than that of their names.
C10_Witness ==
    /\ last.op = "add_Argument"
    /\ last.res = "abort"
    /\ last.a = <<"a">>
    /\ us.m_argsorder = <<<<"b">>, <<"c">>, <<"a">>>>

\* C11: clear() and remove_all() return on a registry holding any number of
\* arguments and edges, and afterwards the registry holds no argument, the
\* declaration order is empty and both graphs are empty.
C11_clear_Empties ==
    [][last'.op \in {"clear", "remove_all"} =>
         /\ last'.res = "ok"
         /\ DOMAIN us'.m_arguments = {}
         /\ us'.m_argsorder = <<>>
         /\ us'.m_requirements = {}
         /\ us'.m_conflicts = {}]_vars

\* the results with which the token scan ends before the last token is read
ParseEnds == {"HelpRequested", "SyntaxError", "UnknownArgument", "TypeMismatch"}

\* the tokens of argv that do not start with the switch character
UnnamedTokens(argv) ==
    LET IsUnnamed(t) == t # <<>> /\ t[1] # "-"
    IN  IF argv = <<>> THEN <<>> ELSE SelectSeq(Tail(argv), IsUnnamed)

\* the unnamed arguments in declaration order
UnnamedArgs(U) ==
    LET IsUnnamed(n) == ~U.m_arguments[n].named
    IN  SelectSeq(U.m_argsorder, IsUnnamed)

\* in a parse that read every token, the k-th unnamed argument received the
\* k-th unnamed token when no earlier unnamed argument accepts many
SlotsInOrder ==
    (last'.op = "set_parameters" /\ last'.ret.kind \notin ParseEnds) =>
        LET tokens == UnnamedTokens(last'.argv)
            slots == UnnamedArgs(us)
        IN  \A k \in 1..Len(tokens) :
              (k <= Len(slots) /\ \A j \in 1..(k - 1) : ~us.m_arguments[slots[j]].many)
              => LET old == us.m_arguments[slots[k]].value
                     new == us'.m_arguments[slots[k]].value
                 IN  Len(new) > Len(old) /\ new[Len(old) + 1] = tokens[k]

\* C12: an unnamed argument that does not accept many never holds more than
\* one value, over any sequence of set_parameters calls on the registry; and
\* within one parse the k-th unnamed argument in declaration order receives
\* the k-th unnamed token when no earlier unnamed argument accepts many.
C12_AtMostOneValue ==
    [][/\ \A n \in DOMAIN us'.m_arguments :
             (~us'.m_arguments[n].named /\ ~us'.m_arguments[n].many)
             => Len(us'.m_arguments[n].value) <= 1
       /\ SlotsInOrder]_vars

\* A named token without quotes, read apart from the parser: its name part,
\* the kind it shows and the value it carries.
IsNamedToken(t) == Len(t) >= 2 /\ t[1] = "-" /\ Tail(t) # <<"h">>

ColonAt(t) == CHOOSE k \in 1..Len(t) : t[k] = ":" /\ \A j \in 1..(k - 1) : t[j] # ":"

TokenKind(t) ==
    IF \E k \in 1..Len(t) : t[k] = ":" THEN "string"
    ELSE IF t[Len(t)] \in {"+", "-"} THEN "boolean"
    ELSE "simple"

NamePart(t) ==
    IF TokenKind(t) = "string" THEN SubSeq(t, 2, ColonAt(t) - 1)
    ELSE IF TokenKind(t) = "boolean" THEN SubSeq(t, 2, Len(t) - 1)
    ELSE Tail(t)

TokenValue(t) ==
    IF TokenKind(t) = "string" THEN SubSeq(t, ColonAt(t) + 1, Len(t))
    ELSE IF TokenKind(t) = "boolean" /\ t[Len(t)] = "-" THEN <<"f", "a", "l", "s", "e">>
    ELSE <<"t", "r", "u", "e">>

\* the name part is the name or the shortcut of the named argument
NamedBy(arg, part) ==
    arg.named /\ (part = arg.m_name \/ part = <<arg.shortcut_char>>)

\* the first argument in declaration order, among those of the set S, that
\* the name part names; <<>> when there is none
FirstNamed(U, S, part) ==
    LET hits == {k \in 1..Len(U.m_argsorder) :
                   U.m_argsorder[k] \in S /\ NamedBy(U.m_arguments[U.m_argsorder[k]], part)}
    IN  IF hits = {} THEN <<>>
        ELSE U.m_argsorder[CHOOSE k \in hits : \A m \in hits : k <= m]

\* the step is a parse of two named tokens, the first of which assigned the
\* argument n and the second of which names n again
Resupplied(n) ==
    /\ last'.op = "set_parameters"
    /\ Len(last'.argv) = 3
    /\ IsNamedToken(last'.argv[2]) /\ IsNamedToken(last'.argv[3])
    /\ NamePart(last'.argv[2]) # <<>> /\ NamePart(last'.argv[3]) # <<>>
    /\ \A m \in DOMAIN us.m_arguments : us.m_arguments[m].value = <<>>
    /\ n = FirstNamed(us, DOMAIN us.m_arguments, NamePart(last'.argv[2]))
    /\ us.m_arguments[n].m_type = TokenKind(last'.argv[2])
    /\ NamedBy(us.m_arguments[n], NamePart(last'.argv[3]))

\* C13 (as stated): within one parse a second token naming an argument that
\* was already assigned yields UnknownArgument for that token, and the
\* argument keeps the value of the first token and receives no second one.
C13_ResuppliedIsUnknown ==
    [][\A n \in DOMAIN us.m_arguments :
         Resupplied(n) =>
            /\ last'.ret = UNKNOW_ARGUMENT(NamePart(last'.argv[3]))
            /\ us'.m_arguments[n].value = <<TokenValue(last'.argv[2])>>]_vars

\* C13 (amended): within one parse an argument that was already assigned is
\* never matched again and keeps exactly the value of its first token; a
\* second token naming it yields UnknownArgument for that token unless the
\* name part is also the name or shortcut of another named argument, not
\* yet assigned, and then the first such argument in declaration order is
\* the one matched: it is assigned when its type is the token's, and
\* TypeMismatch naming it is returned otherwise.
C13_ResuppliedNotRematched ==
    [][\A n \in DOMAIN us.m_arguments :
         Resupplied(n) =>
            LET part == NamePart(last'.argv[3])
                other == FirstNamed(us, DOMAIN us.m_arguments \ {n}, part)
            IN  /\ us'.m_arguments[n].value = <<TokenValue(last'.argv[2])>>
                /\ IF other = <<>>
                   THEN last'.ret = UNKNOW_ARGUMENT(part)
                   ELSE IF us.m_arguments[other].m_type = TokenKind(last'.argv[3])
                   THEN /\ last'.ret.kind \notin ParseEnds
                        /\ us'.m_arguments[other].value[1] = TokenValue(last'.argv[3])
                   ELSE /\ last'.ret = TYPE_MISMATCH(other, TokenKind(last'.argv[3]),
                                                    us.m_arguments[other].m_type)
                        /\ us'.m_arguments[other].value = <<>>]_vars

\* C13 witness: a was assigned by name and named again by its shortcut, and
\* the parse returned UnknownArgument for the second token.
C13_Witness ==
    /\ last.op = "set_parameters"
    /\ last.argv = <<program_name, <<"-", "a", ":", "1">>, <<"-", "s", ":", "2">>>>
    /\ last.ret = UNKNOW_ARGUMENT(<<"s">>)
    /\ us.m_arguments[<<"a">>].value = <<<<"1">>>>

\* the step is a parse in which the token at position k of argv is the first
\* named token, only unnamed values x standing before it
FirstNamedTokenAt(k) ==
    /\ last'.op = "set_parameters"
    /\ k \in 2..Len(last'.argv)
    /\ IsNamedToken(last'.argv[k])
    /\ NamePart(last'.argv[k]) # <<>>
    /\ \A j \in 2..(k - 1) : last'.argv[j] = <<"x">>

\* C14: when the name part of a named token finds an unset named argument (the
\* first in declaration order that has it as name or shortcut) whose type
\* is not the kind of the token, set_parameters returns TypeMismatch with
\* the argument, the kind given and the type expected; the argument
\* receives no value and is not marked set, also when an argument is
\* required and missing.
C14_TypeMismatch ==
    [][\A k \in 2..3 :
         FirstNamedTokenAt(k) =>
            LET t == last'.argv[k]
                n == FirstNamed(us, DOMAIN us.m_arguments, NamePart(t))
            IN  (n # <<>> /\ us.m_arguments[n].m_type # TokenKind(t)) =>
                   /\ last'.ret = TYPE_MISMATCH(n, TokenKind(t), us.m_arguments[n].m_type)
                   /\ us'.m_arguments[n] = us.m_arguments[n]
                   /\ \A i \in 1..Len(us.m_argsorder) :
                         us.m_argsorder[i] = n => ~last'.set_args[i]]_vars

\* C14 witness: TypeMismatch was returned for b, given as boolean and declared
\* simple, while the required argument a is missing.
C14_Witness ==
    /\ last.op = "set_parameters"
    /\ last.ret = TYPE_MISMATCH(<<"b">>, "boolean", "simple")
    /\ us.m_arguments[<<"a">>].m_required
    /\ us.m_arguments[<<"a">>].value = <<>>
    /\ us.m_arguments[<<"b">>].value = <<>>

\* the tokens of argv before position k are read without ending the scan
ReadsUpTo(U, argv, k) ==
    set_parameters(U, SubSeq(argv, 1, k - 1)).ret.kind \notin ParseEnds

\* C15: set_parameters returns "?" exactly when the first token that ends the
\* scan is the switch character followed by the help token; the help token
\* without the switch character is an unnamed value and requests no help.
C15_HelpOnlyWhenNamed ==
    [][last'.op = "set_parameters" =>
         /\ last'.ret = HelpRequested <=>
               \E k \in 2..Len(last'.argv) :
                  /\ last'.argv[k] = <<switch_char>> \o help_arg
                  /\ ReadsUpTo(us, last'.argv, k)
         /\ (Len(last'.argv) >= 2 /\ last'.argv[2] = help_arg) =>
               /\ last'.ret # HelpRequested
               /\ us'.m_arguments[UnnamedArgs(us)[1]].value = <<help_arg>>]_vars

\* the last call repeated the argument vector of the call before it
Retried ==
    /\ last.op = "set_parameters"
    /\ last.calls >= 2
    /\ last.before.argv = last.argv

\* C16: when set_parameters fails and is called again on the same registry
\* with the same argument vector, the second call returns what the first
\* returned, whatever values and defaults the first call has written.
C16_FailureIdempotent ==
    (Retried /\ last.before.ret # Success) => last.ret = last.before.ret

\* C16 witness: a vector whose first token was assigned and whose second
\* token failed was given twice; the value of the first attempt is still in
\* the registry and the result is the same.
C16_Witness ==
    /\ Retried
    /\ last.argv = <<program_name, <<"x">>, <<"-", "z">>>>
    /\ last.ret = UNKNOW_ARGUMENT(<<"z">>)
    /\ last.before.ret = UNKNOW_ARGUMENT(<<"z">>)
    /\ \E n \in DOMAIN us.m_arguments : us.m_arguments[n].value = <<<<"x">>, <<"x">>>>

\* C17: when set_parameters returns a diagnostic, the value list of every
\* registered argument is what it was before the call: no token value and no
\* default value of the failed attempt remains in the registry.
C17_NoPartialSuccess ==
    [][(last'.op = "set_parameters" /\ last'.ret # Success) =>
         \A n \in DOMAIN us.m_arguments :
            us'.m_arguments[n].value = us.m_arguments[n].value]_vars

\* the result is the empty string, "?" or a diagnostic of one of the five
\* shapes
ListedResult(ret) ==
    \/ ret = Success
    \/ ret = HelpRequested
    \/ \E n \in DOMAIN us.m_arguments, g \in Argument_Type, e \in Argument_Type :
          ret = TYPE_MISMATCH(n, g, e)
    \/ ret.kind = "UnknownArgument" /\ DOMAIN ret = {"kind", "token"}
    \/ /\ ret.kind = "SyntaxError"
       /\ DOMAIN ret = {"kind", "number", "token"}
       /\ ret.number \in 1..(Len(last.argv) - 1)
       /\ ret.token = last.argv[ret.number + 1]
    \/ \E n \in DOMAIN us.m_arguments : ret = REQUIRED_ARGUMENT(n)
    \/ \E n \in DOMAIN us.m_arguments, m \in DOMAIN us.m_arguments :
          ret = CONFLICT(n, m)

\* C18 (as stated): for every argc >= 0 and every token vector the result of
\* set_parameters is the empty string, "?" or one diagnostic of the five
\* shapes.
C18_ResultIsListed ==
    last.op = "set_parameters" => ListedResult(last.ret)

\* C18 (amended): for every argc >= 1 the result is the empty string, "?" or
\* one diagnostic of the five shapes; for argc = 0 it is the separate
\* message "No argument to evaluate." and the registry is not touched.
C18_ResultIsListedOrNoArgument ==
    last.op = "set_parameters" =>
        IF Len(last.argv) = 0
        THEN last.ret = NO_ARGUMENT /\ last.set_args = <<>>
        ELSE ListedResult(last.ret)

\* C18 witness: set_parameters was called with argc = 0 on a registry with a
\* required argument and returned the message of its first line.
C18_Witness ==
    /\ last.op = "set_parameters"
    /\ last.argv = <<>>
    /\ last.ret = NO_ARGUMENT
    /\ \E n \in DOMAIN us.m_arguments : us.m_arguments[n].m_required

\* a path of declared pairs of C joins x and y
Joined(C, x, y) ==
    LET E == {e \in Names \X Names : {e[1], e[2]} \in C}
    IN  PathWithin(E, x, y, Cardinality(E))

\* C19: in_conflict(a, b) is true exactly when a and b are distinct and a path
\* of declared pairs joins them, in every state; and remove_conflict of a
\* declared pair leaves the groups that the remaining pairs form, so that
\* after the pairs (A,B), (B,C) and remove_conflict(A,B) only B and C are in
\* conflict.
C19_GroupsAreComponents ==
    [][/\ \A x \in DOMAIN us'.m_arguments, y \in DOMAIN us'.m_arguments :
             in_conflict(us', x, y) <=> (x # y /\ Joined(us'.m_conflicts, x, y))
       /\ (/\ last'.op = "remove_conflict"
           /\ last'.res = "ok"
           /\ {last'.a, last'.b} \in us.m_conflicts) =>
             \A x \in DOMAIN us.m_arguments, y \in DOMAIN us.m_arguments :
                in_conflict(us', x, y) <=>
                   (x # y /\ Joined(us.m_conflicts \ {{last'.a, last'.b}}, x, y))]_vars

\* C19 witness: of a chain of two declared pairs one was removed; the
\* argument it held is in conflict with nothing, the other pair remains.
C19_Witness ==
    /\ last.op = "remove_conflict"
    /\ last.res = "ok"
    /\ \E C \in Names \ {last.a, last.b} :
          /\ us.m_conflicts = {{last.b, C}}
          /\ ~in_conflict(us, last.a, C)
          /\ ~in_conflict(us, last.a, last.b)
          /\ in_conflict(us, last.b, C)

\* C20: when the token scan ends at a token (syntax error, unknown argument,
\* type mismatch or help request), the call returns what it returns for the
\* vector cut after that token and leaves the registry as that shorter call
\* does, so no later token changes a value; and the validation is not run:
\* no argument holds its default value and only arguments that received a
\* token value are marked set.
C20_StopsAtFirstEnd ==
    [][(last'.op = "set_parameters" /\ last'.ret.kind \in ParseEnds) =>
         /\ \E k \in 2..Len(last'.argv) :
               /\ ReadsUpTo(us, last'.argv, k)
               /\ set_parameters(us, SubSeq(last'.argv, 1, k)).ret = last'.ret
               /\ set_parameters(us, SubSeq(last'.argv, 1, k)).us = us'
         /\ \A i \in 1..Len(us.m_argsorder) :
               LET old == us.m_arguments[us.m_argsorder[i]]
                   new == us'.m_arguments[us.m_argsorder[i]]
               IN  /\ \A j \in (Len(old.value) + 1)..Len(new.value) :
                         new.value[j] # old.m_default_value
                   /\ last'.set_args[i] => Len(new.value) > Len(old.value)]_vars

\* C20 witness: the scan ended at an unknown first token; the token after it
\* names a, and a, which has a default value, holds no value at all.
C20_Witness ==
    /\ last.op = "set_parameters"
    /\ last.argv = <<program_name, <<"-", "z">>, <<"-", "a", ":", "1">>>>
    /\ last.ret = UNKNOW_ARGUMENT(<<"z">>)
    /\ us.m_arguments[<<"a">>].m_default_value # <<>>
    /\ us.m_arguments[<<"a">>].value = <<>>

\* every token of argv after the program name is an unnamed value
AllUnnamed(argv) ==
    /\ Len(argv) >= 2
    /\ \A k \in 2..Len(argv) :
          argv[k] # <<>> /\ argv[k][1] # switch_char /\ argv[k] # help_arg

\* C21: when the first unnamed argument in declaration order accepts many
\* and the vector holds unnamed tokens only, that argument receives every
\* token, in order, and no token is reported as a syntax error.
C21_ManyReceivesFollowing ==
    [][(/\ last'.op = "set_parameters"
        /\ AllUnnamed(last'.argv)
        /\ UnnamedArgs(us) # <<>>
        /\ us.m_arguments[UnnamedArgs(us)[1]].many) =>
         /\ last'.ret.kind # "SyntaxError"
         /\ us'.m_arguments[UnnamedArgs(us)[1]].value =
               us.m_arguments[UnnamedArgs(us)[1]].value \o Tail(last'.argv)]_vars

\* the arguments named by a token of argv that carries a value
Supplied(argv) ==
    {n \in Names : \E k \in 2..Len(argv) : argv[k] = <<switch_char>> \o n \o <<":", "1">>}

\* the positions of the required arguments that argv does not supply and
\* that no supplied argument is declared in conflict with
Unexempted(U, argv) ==
    {i \in 1..Len(U.m_argsorder) :
        /\ U.m_argsorder[i] \notin Supplied(argv)
        /\ U.m_arguments[U.m_argsorder[i]].m_required
        /\ \A y \in Supplied(argv) : {U.m_argsorder[i], y} \notin U.m_conflicts}

\* C22: when every token was read and some required argument is unset with
\* no set argument declared in conflict with it, set_parameters reports the
\* first such argument in declaration order as missing, whatever conflict or
\* requirement the set arguments violate; a set member of its conflict group
\* that is not paired with it literally does not exempt it.
C22_FirstMissingRequired ==
    [][(/\ last'.op = "set_parameters"
        /\ last'.ret.kind \notin ParseEnds \cup {"NoArgument"}) =>
         (Unexempted(us, last'.argv) = {} \/
            \E i \in Unexempted(us, last'.argv) :
               /\ \A k \in Unexempted(us, last'.argv) : i <= k
               /\ last'.ret = REQUIRED_ARGUMENT(us.m_argsorder[i]))]_vars

\* C22 witness: a, b and c are required and form the chain (a,b), (b,c); only
\* c is supplied, which is in the group of a without being paired with it,
\* and a is reported missing.
C22_Witness ==
    /\ last.op = "set_parameters"
    /\ us.m_conflicts = {{<<"a">>, <<"b">>}, {<<"b">>, <<"c">>}}
    /\ \A n \in Names : us.m_arguments[n].m_required
    /\ last.argv = <<program_name, <<"-", "c", ":", "1">>>>
    /\ last.ret = REQUIRED_ARGUMENT(<<"a">>)

\* the first scan of the call on argv reaches position i
Scanned(U, argv, i) == \A k \in Unexempted(U, argv) : i < k

\* some direct requirement of the argument at position i is set when the
\* first scan is at i: it was supplied, or it stands before i and was left
\* set by the scan
RequirementSetAt(U, argv, set_args, i) ==
    \E j \in 1..Len(U.m_argsorder) :
       /\ <<U.m_argsorder[i], U.m_argsorder[j]>> \in U.m_requirements
       /\ \/ U.m_argsorder[j] \in Supplied(argv)
          \/ j < i /\ set_args[j]

\* C23: in a call that read every token, an argument with a default value
\* that was not supplied and that the first scan reaches receives its
\* default, as one more value, and is marked set exactly when it has no
\* direct requirement or one of its direct requirements is set at that
\* moment; otherwise its values are unchanged and it stays unset.
C23_ConditionalDefault ==
    [][(/\ last'.op = "set_parameters"
        /\ last'.ret.kind \notin ParseEnds \cup {"NoArgument"}) =>
         \A i \in 1..Len(us.m_argsorder) :
            LET X == us.m_argsorder[i]
                old == us.m_arguments[X]
                new == us'.m_arguments[X]
                applies ==
                    \/ \A y \in Names : <<X, y>> \notin us.m_requirements
                    \/ RequirementSetAt(us, last'.argv, last'.set_args, i)
            IN  (/\ old.m_default_value # <<>>
                 /\ X \notin Supplied(last'.argv)
                 /\ Scanned(us, last'.argv, i)) =>
                   IF applies
                   THEN /\ last'.set_args[i]
                        /\ new.value = Append(old.value, old.m_default_value)
                   ELSE /\ ~last'.set_args[i]
                        /\ new.value = old.value]_vars

\* C23 witness: a and c have a default value, a requires b, b has none and
\* is not supplied; the call succeeds, c holds its default and a holds
\* nothing.
C23_Witness ==
    /\ last.op = "set_parameters" /\ last.ret = Success
    /\ us.m_requirements = {<<<<"a">>, <<"b">>>>}
    /\ us.m_arguments[<<"a">>].m_default_value # <<>>
    /\ us.m_arguments[<<"b">>].m_default_value = <<>>
    /\ last.set_args = <<FALSE, FALSE, TRUE>>
    /\ us.m_arguments[<<"a">>].value = <<>>
    /\ us.m_arguments[<<"c">>].value = <<us.m_arguments[<<"c">>].m_default_value>>

\* the ordered pairs of positions (i, j) that violate a rule once the call
\* has marked its arguments: i is set and j is set and in the conflict group
\* of i, or i is set, j is unset and i requires j through some chain
RuleViolations(U, set_args) ==
    {ij \in (1..Len(U.m_argsorder)) \X (1..Len(U.m_argsorder)) :
        /\ ij[1] # ij[2]
        /\ set_args[ij[1]]
        /\ \/ set_args[ij[2]] /\ SameGroup(U, U.m_argsorder[ij[1]], U.m_argsorder[ij[2]])
           \/ ~set_args[ij[2]] /\ Requires(U, U.m_argsorder[ij[1]], U.m_argsorder[ij[2]])}

\* (i, j) comes before (k, l): i ascending, then j ascending
PairBefore(x, y) == x[1] < y[1] \/ (x[1] = y[1] /\ x[2] <= y[2])

\* C24: when every token was read and the first scan found no required
\* argument missing, set_parameters succeeds if no ordered pair violates a
\* rule, and otherwise returns the violation of the first such pair (i, j),
\* i ascending then j ascending: the conflict of i and j, named in that
\* order, when j is set, the missing argument j when it is not; a reported
\* conflict names the argument declared earlier first.
C24_FirstViolatingPair ==
    [][(/\ last'.op = "set_parameters"
        /\ last'.ret.kind \notin ParseEnds \cup {"NoArgument"}
        /\ Unexempted(us, last'.argv) = {}) =>
         LET bad == RuleViolations(us, last'.set_args)
         IN  /\ bad = {} => last'.ret = Success
             /\ \A ij \in bad :
                   (\A other \in bad : PairBefore(ij, other)) =>
                      /\ last'.ret =
                            IF last'.set_args[ij[2]]
                            THEN CONFLICT(us.m_argsorder[ij[1]], us.m_argsorder[ij[2]])
                            ELSE REQUIRED_ARGUMENT(us.m_argsorder[ij[2]])
                      /\ last'.set_args[ij[2]] => ij[1] < ij[2]]_vars

\* C24 witness: a requires b and is in conflict with c; a and c are supplied
\* and b is not, so the pairs (a, b) and (a, c) both violate a rule, and the
\* call reports b missing, the violation of the first of them.
C24_Witness ==
    /\ last.op = "set_parameters"
    /\ us.m_requirements = {<<<<"a">>, <<"b">>>>}
    /\ us.m_conflicts = {{<<"a">>, <<"c">>}}
    /\ last.set_args = <<TRUE, FALSE, TRUE>>
    /\ last.ret = REQUIRED_ARGUMENT(<<"b">>)

\* C25: when the second scan reports an argument as missing, some argument
\* supplied in the argument vector requires it, directly or through a
\* chain: an argument that holds only its default value obliges nothing.
C25_MissingOnlyFromSupplied ==
    [][(/\ last'.op = "set_parameters"
        /\ last'.ret.kind = "MissingRequired"
        /\ Unexempted(us, last'.argv) = {}) =>
         \E x \in Supplied(last'.argv) : Requires(us, x, last'.ret.argument)]_vars

\* A named token read apart from the parser: the text after the switch
\* character, the place of its first quote, the name part before the quote
\* and the quoted value after it.
Body(t) == Tail(t)

QuoteAt(t) ==
    IF \E k \in 1..Len(Body(t)) : Body(t)[k] = "\""
    THEN CHOOSE k \in 1..Len(Body(t)) :
            Body(t)[k] = "\"" /\ \A j \in 1..(k - 1) : Body(t)[j] # "\""
    ELSE 0

BeforeQuote(t) ==
    IF QuoteAt(t) = 0 THEN Body(t) ELSE SubSeq(Body(t), 1, QuoteAt(t) - 1)

QuotedValue(t) ==
    IF QuoteAt(t) = 0 THEN <<>> ELSE SubSeq(Body(t), QuoteAt(t) + 1, Len(Body(t)))

HasColon(s) == \E k \in 1..Len(s) : s[k] = ":"

\* the token is only the switch character, or its name part is empty (before
\* the quote, before the colon or before the sign), or it is a boolean or a
\* simple token that carries a quoted value
Malformed(t) ==
    \/ Body(t) = <<>>
    \/ BeforeQuote(t) = <<>>
    \/ HasColon(BeforeQuote(t)) /\ BeforeQuote(t)[1] = ":"
    \/ /\ ~HasColon(BeforeQuote(t))
       /\ \/ QuotedValue(t) # <<>>
          \/ BeforeQuote(t) \in {<<"+">>, <<"-">>}

\* C26: a named token that the scan reaches and that is only the switch
\* character, has an empty name part, or is a boolean or simple token with a
\* quoted value makes set_parameters return the syntax error that carries
\* the index of the token in the argument vector, empty tokens counted.
C26_MalformedIsSyntaxError ==
    [][last'.op = "set_parameters" =>
         \A k \in 2..Len(last'.argv) :
            (/\ last'.argv[k] # <<>>
             /\ last'.argv[k][1] = switch_char
             /\ Malformed(last'.argv[k])
             /\ ReadsUpTo(us, last'.argv, k)) =>
               last'.ret = SYNTAX_ERROR(k - 1, last'.argv[k])]_vars

\* C27: when set_parameters reports two arguments as conflicting, both were
\* supplied in the argument vector: an argument that holds only its default
\* value conflicts with nothing.
C27_ConflictOnlyBetweenSupplied ==
    [][(last'.op = "set_parameters" /\ last'.ret.kind = "ConflictingArguments") =>
         /\ last'.ret.argument1 \in Supplied(last'.argv)
         /\ last'.ret.argument2 \in Supplied(last'.argv)]_vars

\* the conflict group of an argument, the argument included
GroupOf(U, n) == {n} \cup {x \in DOMAIN U.m_arguments : SameGroup(U, x, n)}

\* C28: an argument is not reported missing when every member of its
\* conflict group is required, exactly one member of the group was supplied
\* and no supplied argument requires the reported one: one supplied member
\* satisfies the whole group, whatever pairs formed it.
C28_OneMemberSatisfiesGroup ==
    [][(last'.op = "set_parameters" /\ last'.ret.kind = "MissingRequired") =>
         LET G == GroupOf(us, last'.ret.argument)
         IN  ~(/\ \A m \in G : us.m_arguments[m].m_required
               /\ Cardinality(G \cap Supplied(last'.argv)) = 1
               /\ \A x \in Supplied(last'.argv) :
                     ~Requires(us, x, last'.ret.argument))]_vars

\* C29: the requirement graph has no cycle: no registered argument requires
\* itself through a chain of requirements.
C29_RequirementsAcyclic ==
    \A x \in DOMAIN us.m_arguments : ~Requires(us, x, x)

\* the name a named token gives: the text before the quote, cut before its
\* first colon, or else without its trailing sign
NameOf(t) ==
    LET n == BeforeQuote(t)
    IN  IF n = <<>> THEN <<>>
        ELSE IF HasColon(n)
        THEN SubSeq(n, 1, (CHOOSE k \in 1..Len(n) :
                              n[k] = ":" /\ \A j \in 1..(k - 1) : n[j] # ":") - 1)
        ELSE IF n[Len(n)] \in {"+", "-"} THEN SubSeq(n, 1, Len(n) - 1)
        ELSE n

\* C30: a named argument declared without a shortcut (and without a default
\* value) receives a value from set_parameters only when some named token
\* of the argument vector gives its full name; a token whose name part is
\* one space assigns nothing to it.
C30_MatchedByNameOnly ==
    [][last'.op = "set_parameters" =>
         \A n \in DOMAIN us.m_arguments :
            (/\ us.m_arguments[n].named
             /\ us.m_arguments[n].shortcut_char = " "
             /\ us.m_arguments[n].m_default_value = <<>>
             /\ us'.m_arguments[n].value # us.m_arguments[n].value) =>
               \E k \in 2..Len(last'.argv) :
                  /\ last'.argv[k] # <<>>
                  /\ last'.argv[k][1] = switch_char
                  /\ NameOf(last'.argv[k]) = n]_vars

====
